---- MODULE Spec2Model ----
(***************************************************************************)
(* Model of the learning-roadmap generator's request-dispatch mechanism    *)
(* (src/src/services/geminiService.ts) and of its persistence fallback     *)
(* (src/src/services/userService.ts).                                      *)
(*                                                                         *)
(* Time.  The code reads Date.now() and compares differences of            *)
(* timestamps with fixed horizons.  The model keeps, instead of an         *)
(* absolute timestamp t, its age now - t in milliseconds.  An age stops    *)
(* growing at the horizon the code compares it with, since beyond it the   *)
(* code cannot tell two ages apart; a timer is kept as the time left       *)
(* before it fires.  The action Tick lets time pass up to the next instant *)
(* at which a timer fires or an age reaches its horizon; calls are made    *)
(* and responses arrive at these instants.                                 *)
(***************************************************************************)
EXTENDS Integers, Sequences, FiniteSets, TLC

(* ------------------------------ bounds -------------------------------- *)
\* number of configured API keys
NumKeys == 2
\* longest task list handed to makeParallelRequests
MaxTasks == 3
\* stand-alone makeRequest calls that may be in flight together
MaxInFlight == 2
\* stand-alone makeRequest calls made in all
MaxRequests == 4
\* calls of makeParallelRequests made in all
MaxRuns == 1
\* longest chapter list of a roadmap
MaxChapters == 4
\* users, roadmaps and chapters known to userService
NumUsers == 2
NumRoadmaps == 2
NumChapters == 2
\* first names a profile can carry
NumNames == 2
\* values Date.now() takes while userService runs
MaxStamp == 2
\* userService calls made in all
MaxOps == 3
\* inserts into the roadmaps table made in all
MaxInserts == 3
\* runs of RoadmapView's generateRoadmap started in all
MaxGenerations == 6
\* subjects the view can be asked for
NumSubjects == 2

(* ------------------------- program constants -------------------------- *)
maxRequestsPerKey == 20
timeWindow == 60000
minInterval == 1000
maxConsecutiveErrors == 3
reactivateAfter == 300000
requestTimeout == 30000
batchPause == 500
courseBatchLimit == 3
courseDelay == 1000
maxRetries == 3

Keys == 1..NumKeys
Min(a, b) == IF a < b THEN a ELSE b
Range(s) == {s[x] : x \in DOMAIN s}

VARIABLES
  keyPool,        \* MultiKeyRateLimiter.keyPool: the configured keys, in order
  keyUsage,       \* MultiKeyRateLimiter.keyUsage: per key, requests (ages),
                  \*   lastRequest (age), consecutiveErrors, isActive
  timers,         \* per key, the times left of the pending reactivation timers
  sinceSuspend,   \* per key, time since recordError last suspended it (-1: never)
  calls,          \* the calls of makeRequestWithKey in flight, by slot
  requestsMade,   \* number of stand-alone makeRequest calls made so far
  runs,           \* number of makeParallelRequests calls made so far
  pc,             \* makeParallelRequests: "idle", "await", "pause", "done"
  prompts,        \* its argument: the ids of the tasks, in order
  availableKeys,  \* its local availableKeys
  batchSize,      \* its local batchSize
  i,              \* its loop index
  batchResults,   \* the settled promises of the batch in flight, by task index
  results,        \* its local results
  pauseTimer,     \* time left of the pause between batches (-1: none)
  attempts,       \* per task index, the number of dispatch attempts made
  batches,        \* number of non-empty batches dispatched
  dispatched,     \* the latest batch: keys used, and keys eligible just before
  cpc,            \* generateDetailedCourse: "idle", "await", "delay", "done"
  chapters,       \* roadmap.chapters: the ids of the chapters, in order
  courseBatchSize,  \* its local batchSize
  courseIndex,    \* its loop index i
  detailedChapters, \* its local detailedChapters
  delivered,      \* per chapter, in order, what makeParallelRequests returned for it
  delayTimer,     \* time left of the delay between its batches (-1: none)
  selected,       \* the latest call of getAvailableKeys made on its own
  localStorage,   \* window.localStorage
  lastCall,       \* the latest call of a userService operation
  opsMade,        \* number of userService calls made so far
  roadmapRows,    \* the committed rows of the table roadmaps
  inserts,        \* the INSERT transactions on roadmaps, by transaction
  view,           \* RoadmapView: its props, its state and what it has started
  gens,           \* the runs of RoadmapView's generateRoadmap in flight, by slot
  generated,      \* the latest settled call of geminiService.generateRoadmap
  retriesSince,   \* retries started since the latest successful generation
  cleaning        \* a response text and what cleanJsonResponse has made of it

trackerVars == <<keyPool, keyUsage, timers, sinceSuspend>>
orchVars == <<pc, prompts, availableKeys, batchSize, i, batchResults, results,
              pauseTimer, attempts, batches, dispatched>>
courseVars == <<cpc, chapters, courseBatchSize, courseIndex, detailedChapters,
                delivered>>
storeVars == <<roadmapRows, inserts>>
viewVars == <<view, gens, generated, retriesSince>>
cleanVars == <<cleaning>>
otherVars == <<selected, localStorage, lastCall, opsMade, storeVars, viewVars,
               cleanVars>>
vars == <<keyPool, keyUsage, timers, sinceSuspend, calls, requestsMade, runs, pc, prompts,
          availableKeys, batchSize, i, batchResults, results, pauseTimer,
          attempts, batches, dispatched, cpc, chapters, courseBatchSize,
          courseIndex, detailedChapters, delivered, delayTimer, selected,
          localStorage, lastCall, opsMade, roadmapRows, inserts, view, gens,
          generated, retriesSince, cleaning>>

(* ----------------------- MultiKeyRateLimiter -------------------------- *)
\* constructor: the usage record of a freshly configured key; lastRequest 0
\* is the epoch, so its age is beyond every horizon
NewUsage == [requests |-> <<>>, lastRequest |-> minInterval,
             consecutiveErrors |-> 0, isActive |-> TRUE]

\* requests.filter(time => now - time < timeWindow)
CleanRequests(reqs) == SelectSeq(reqs, LAMBDA a : a < timeWindow)

\* canUseKey letting a key at the cap through
canUseKeyAtCap(u) ==
  /\ Len(CleanRequests(u.requests)) <= maxRequestsPerKey
  /\ u.lastRequest >= minInterval
  /\ u.consecutiveErrors < maxConsecutiveErrors

\* canUseKey, on a usage record whose requests have been cleaned
canUseKey(u) ==
  /\ Len(CleanRequests(u.requests)) < maxRequestsPerKey
  /\ u.lastRequest >= minInterval
  /\ u.consecutiveErrors < maxConsecutiveErrors

\* Array.prototype.sort is stable: insert k behind every key that does not
\* compare greater
RECURSIVE InsertKey(_, _, _)
InsertKey(s, k, usage) ==
  IF s = <<>> THEN <<k>>
  ELSE IF Len(CleanRequests(usage[k].requests))
            < Len(CleanRequests(usage[s[Len(s)]].requests))
       THEN Append(InsertKey(SubSeq(s, 1, Len(s) - 1), k, usage), s[Len(s)])
       ELSE Append(s, k)

\* sortedKeys leaving the pool in its configured order
sortedKeysAsConfigured(pool, usage) == pool

\* sortedKeys: the pool sorted by the number of requests in the window
RECURSIVE sortedKeys(_, _)
sortedKeys(pool, usage) ==
  IF pool = <<>> THEN <<>>
  ELSE InsertKey(sortedKeys(SubSeq(pool, 1, Len(pool) - 1), usage),
                 pool[Len(pool)], usage)

\* the for loop of getAvailableKeys over sortedKeys from position p on:
\* the keys pushed (avail) and the keys whose requests the loop cleaned
RECURSIVE ScanKeys(_, _, _, _, _, _)
ScanKeys(sorted, p, avail, cleaned, count, usage) ==
  IF p > Len(sorted) \/ Len(avail) >= count
  THEN [avail |-> avail, cleaned |-> cleaned]
  ELSE LET k == sorted[p]
       IN IF ~usage[k].isActive
          THEN ScanKeys(sorted, p + 1, avail, cleaned, count, usage)
          ELSE ScanKeys(sorted, p + 1,
                        IF canUseKey(usage[k]) THEN Append(avail, k) ELSE avail,
                        cleaned \cup {k}, count, usage)

\* getAvailableKeys(count): the keys returned
getAvailableKeys(pool, usage, count) ==
  ScanKeys(sortedKeys(pool, usage), 1, <<>>, {}, count, usage).avail

\* getAvailableKeys(count): the tracker it leaves behind.  The comparator
\* cleans both keys it is handed, and is handed every key of a pool of two
\* or more; the loop cleans the active keys it visits
UsageAfterSelect(pool, usage, count) ==
  LET cleaned == (IF Len(pool) >= 2 THEN Range(pool) ELSE {})
                   \cup ScanKeys(sortedKeys(pool, usage), 1, <<>>, {}, count,
                                 usage).cleaned
  IN [k \in Keys |-> IF k \in cleaned
                     THEN [usage[k] EXCEPT !.requests = CleanRequests(@)]
                     ELSE usage[k]]

\* recordRequest(apiKey): push now, lastRequest = now
recordRequest(usage, k) ==
  [usage EXCEPT ![k].requests = Append(@, 0), ![k].lastRequest = 0]

\* recordError raising the counter and leaving the flag alone
recordErrorCounterOnly(usage, k) ==
  [usage EXCEPT ![k].consecutiveErrors = @ + 1]

\* recordError(apiKey): the counter and the flag
recordError(usage, k) ==
  [usage EXCEPT ![k].consecutiveErrors = @ + 1,
                ![k].isActive = IF usage[k].consecutiveErrors + 1 >= maxConsecutiveErrors
                                THEN FALSE ELSE @]

\* recordError(apiKey): whether it suspends the key and starts a timer
Suspends(usage, k) == usage[k].consecutiveErrors + 1 >= maxConsecutiveErrors

\* recordSuccess(apiKey)
recordSuccess(usage, k) ==
  [usage EXCEPT ![k].consecutiveErrors = 0, ![k].isActive = TRUE]

\* getStatus().activeKeys: the configured slots whose key is available
activeKeys(pool, usage) ==
  Cardinality({p \in DOMAIN pool : canUseKey(usage[pool[p]]) /\ usage[pool[p]].isActive})

(* --------------------------- call slots -------------------------------- *)
\* a task of makeParallelRequests runs in the slot of its index in prompts;
\* a stand-alone makeRequest runs in one of the slots behind them
TaskSlots == 1..MaxTasks
ReqSlots == (MaxTasks + 1)..(MaxTasks + MaxInFlight)
Slots == TaskSlots \cup ReqSlots

NoCall == [key |-> 0, stage |-> "none", elapsed |-> 0, id |-> 0]
\* the response text: '' or the text generated for the prompt of task id,
\* which holds a JSON object or does not
EmptyText == [len |-> 0, for |-> 0, json |-> FALSE]
Text(id, json) == [len |-> 1, for |-> id, json |-> json]
\* the error field of a result: undefined, or the message of the error
\* thrown (no caller reads its text)
NoError == "undefined"
Message == "message"
NoResult == [id |-> 0, result |-> EmptyText, error |-> "pending"]
NoDispatch == [keys |-> <<>>, eligible |-> {}]

\* the age of a call stops growing once it is past the timeout
CallAgeCap == requestTimeout + minInterval

\* the keys getAvailableKeys would accept at this moment
Eligible(pool, usage) ==
  {k \in Range(pool) : usage[k].isActive /\ canUseKey(usage[k])}

NoSelection == [count |-> -1, keys |-> <<>>, before |-> <<>>]
EmptyStorage == [k \in {} |-> 0]
NoCallYet == [op |-> "none", user |-> 0, failed |-> FALSE, threw |-> FALSE,
              roadmapId |-> 0, returned |-> {}]

\* API_KEYS: the environment configures the first n of the keys
PoolConfigs == {[p \in 1..n |-> p] : n \in 0..NumKeys}

\* the transactions and the runs of the view, by slot
Txns == 1..MaxInserts
GenSlots == 1..MaxInFlight
NoInsert == [state |-> "idle", role |-> "none", user_id |-> 0, roadmap_id |-> 0]
NoGen == [stage |-> "none", subject |-> 0, run |-> 0]
NoRoadmap == [subject |-> 0, run |-> 0]
SignedOut == 0
NotMounted == [mounted |-> FALSE, subject |-> 0, user |-> SignedOut,
               roadmap |-> NoRoadmap, loading |-> TRUE, error |-> FALSE,
               retryCount |-> 0, started |-> 0]
NothingGenerated == [requests |-> 0, cause |-> "none", outcome |-> "none",
                     roadmap |-> FALSE]

\* a text in five parts, one after the other, each a sequence of characters
NoParts == <<<<>>, <<>>, <<>>, <<>>, <<>>>>
NothingToClean == [parts |-> NoParts, state |-> "none", cleaned |-> <<>>]

\* the state after construction: a pool out of pools, the configured keys
\* in tracker states out of samples, nothing in flight, a text out of texts
\* at hand
InitWith(pools, samples, texts) ==
  /\ keyPool \in pools
  /\ keyUsage \in {u \in [Keys -> samples] :
                     \A k \in Keys \ Range(keyPool) : u[k] = NewUsage}
  /\ timers = [k \in Keys |-> {}]
  /\ sinceSuspend = [k \in Keys |-> -1]
  /\ calls = [c \in Slots |-> NoCall]
  /\ requestsMade = 0
  /\ runs = 0
  /\ pc = "idle"
  /\ prompts = <<>>
  /\ availableKeys = <<>>
  /\ batchSize = 0
  /\ i = 0
  /\ batchResults = [j \in TaskSlots |-> NoResult]
  /\ results = <<>>
  /\ pauseTimer = -1
  /\ attempts = [j \in TaskSlots |-> 0]
  /\ batches = 0
  /\ dispatched = NoDispatch
  /\ cpc = "idle"
  /\ chapters = <<>>
  /\ courseBatchSize = 0
  /\ courseIndex = 0
  /\ detailedChapters = <<>>
  /\ delivered = <<>>
  /\ delayTimer = -1
  /\ selected = NoSelection
  /\ localStorage = EmptyStorage
  /\ lastCall = NoCallYet
  /\ opsMade = 0
  /\ roadmapRows = {}
  /\ inserts = [t \in Txns |-> NoInsert]
  /\ view = NotMounted
  /\ gens = [g \in GenSlots |-> NoGen]
  /\ generated = NothingGenerated
  /\ retriesSince = 0
  /\ cleaning \in texts

\* the state after construction with no text at hand
InitFrom(pools, samples) == InitWith(pools, samples, {NothingToClean})

\* the module has just been loaded: every configured key is fresh
Init == InitFrom(PoolConfigs, {NewUsage})

(* ------------------------- makeRequestWithKey -------------------------- *)
\* the synchronous head of makeRequestWithKey: the abort timer is set and
\* fetch is issued
NewCall(k, id) == [key |-> k, stage |-> "fetch", elapsed |-> 0, id |-> id]

\* the catch block of a task of makeParallelRequests
TaskResult(id, text, error) ==
  IF error = NoError THEN [id |-> id, result |-> text, error |-> NoError]
  ELSE [id |-> id, result |-> EmptyText, error |-> error]

\* BatchSettles with the batch's promises left to reject: a failed task
\* makes Promise.all reject and the results of its batch are lost
BatchSettlesRejecting(br) ==
  LET n == Len(prompts)
      last == Min(i + batchSize, n)
  IN IF \E j \in (i + 1)..last : br[j] = NoResult
     THEN /\ batchResults' = br
          /\ UNCHANGED <<pc, results, i, pauseTimer>>
     ELSE /\ results' = IF \E j \in (i + 1)..last : br[j].error # NoError
                        THEN results
                        ELSE results \o [j \in 1..(last - i) |-> br[i + j]]
          /\ batchResults' = [j \in TaskSlots |-> NoResult]
          /\ IF i + batchSize < n
             THEN pc' = "pause" /\ pauseTimer' = batchPause /\ i' = i
             ELSE pc' = "done" /\ pauseTimer' = -1 /\ i' = i + batchSize

\* BatchSettles going on as soon as one promise of the batch has settled
BatchSettlesFirst(br) ==
  LET n == Len(prompts)
      last == Min(i + batchSize, n)
  IN /\ results' = results \o [j \in 1..(last - i) |-> br[i + j]]
     /\ batchResults' = [j \in TaskSlots |-> NoResult]
     /\ IF i + batchSize < n
        THEN pc' = "pause" /\ pauseTimer' = batchPause /\ i' = i
        ELSE pc' = "done" /\ pauseTimer' = -1 /\ i' = i + batchSize

\* the continuation of await Promise.all(batchPromises) once br holds every
\* promise of the batch: results.push, then the pause or the return
BatchSettles(br) ==
  LET n == Len(prompts)
      last == Min(i + batchSize, n)
  IN IF \E j \in (i + 1)..last : br[j] = NoResult
     THEN /\ batchResults' = br
          /\ UNCHANGED <<pc, results, i, pauseTimer>>
     ELSE /\ results' = results \o [j \in 1..(last - i) |-> br[i + j]]
          /\ batchResults' = [j \in TaskSlots |-> NoResult]
          /\ IF i + batchSize < n
             THEN pc' = "pause" /\ pauseTimer' = batchPause /\ i' = i
             ELSE pc' = "done" /\ pauseTimer' = -1 /\ i' = i + batchSize

(* --------------- generateRoadmap, the end of a run's call --------------- *)
\* geminiService.generateRoadmap once makeRequest has settled with every
\* failure taken for fatal but a text that does not parse, which yields null
generateRoadmapTolerant(text, error) ==
  IF error # NoError
  THEN [outcome |-> "rejected", roadmap |-> FALSE]
  ELSE [outcome |-> "resolved", roadmap |-> text.json]

\* geminiService.generateRoadmap once makeRequest has settled: the text is
\* cleaned and parsed and the roadmap returned; whatever is thrown is caught
\* and an error thrown in its place
generateRoadmapSettles(text, error) ==
  IF error # NoError \/ ~text.json
  THEN [outcome |-> "rejected", roadmap |-> FALSE]
  ELSE [outcome |-> "resolved", roadmap |-> TRUE]

\* the call of the run in slot g has settled: generateRoadmap of the
\* service settles and the run of the view goes on, to setError and
\* setLoading(false), or to setRoadmap and, signed in, to the saving of the
\* roadmap, signed out, to setRetryCount(0) and setLoading(false)
RunSettles(g, text, error) ==
  LET out == generateRoadmapSettles(text, error)
  IN /\ generated' = [requests |-> 1,
                      cause |-> IF error # NoError THEN "dispatch"
                                ELSE IF ~text.json THEN "parse" ELSE "none",
                      outcome |-> out.outcome, roadmap |-> out.roadmap]
     /\ IF out.outcome = "rejected"
        THEN /\ view' = [view EXCEPT !.error = TRUE, !.loading = FALSE]
             /\ gens' = [gens EXCEPT ![g] = NoGen]
             /\ UNCHANGED retriesSince
        ELSE /\ retriesSince' = 0
             /\ IF view.user # SignedOut
                THEN /\ view' = [view EXCEPT !.roadmap =
                                   [subject |-> gens[g].subject, run |-> gens[g].run]]
                     /\ gens' = [gens EXCEPT ![g].stage = "saving"]
                ELSE /\ view' = [view EXCEPT !.roadmap =
                                   [subject |-> gens[g].subject, run |-> gens[g].run],
                                   !.retryCount = 0, !.loading = FALSE]
                     /\ gens' = [gens EXCEPT ![g] = NoGen]

\* a call settles: the tracker is left as usage, the caller is handed text
\* or error
Settle(c, usage, text, error) ==
  /\ keyUsage' = usage
  /\ calls' = [calls EXCEPT ![c] = NoCall]
  /\ IF c \in TaskSlots
     THEN BatchSettles([batchResults EXCEPT ![c] = TaskResult(calls[c].id, text, error)])
     ELSE UNCHANGED <<pc, results, i, pauseTimer, batchResults>>
  /\ IF c \in ReqSlots /\ gens[c - MaxTasks].stage = "request"
     THEN RunSettles(c - MaxTasks, text, error)
     ELSE UNCHANGED viewVars
  /\ UNCHANGED <<keyPool, requestsMade, runs, prompts, availableKeys, batchSize,
                 attempts, batches, dispatched, courseVars, delayTimer, selected,
                 localStorage, lastCall, opsMade, storeVars, cleanVars>>

\* fetch rejects: the network failed
FetchFails(c) ==
  /\ calls[c].stage = "fetch"
  /\ Settle(c, keyUsage, EmptyText, Message)
  /\ UNCHANGED <<timers, sinceSuspend>>

\* the abort timer fires before the response headers arrived
AbortFires(c) ==
  /\ calls[c].stage = "fetch"
  /\ calls[c].elapsed = requestTimeout
  /\ Settle(c, keyUsage, EmptyText, Message)
  /\ UNCHANGED <<timers, sinceSuspend>>

\* the response headers arrive: clearTimeout, then the body is read
ResponseArrives(c, ok) ==
  /\ calls[c].stage = "fetch"
  /\ calls' = [calls EXCEPT ![c].stage = IF ok THEN "json" ELSE "text"]
  /\ UNCHANGED <<trackerVars, requestsMade, runs, orchVars, courseVars, delayTimer,
                 otherVars>>

\* !response.ok and response.text() resolved: recordError, throw
HttpError(c) ==
  /\ calls[c].stage = "text"
  /\ LET k == calls[c].key
     IN /\ Settle(c, recordError(keyUsage, k), EmptyText, Message)
        /\ IF Suspends(keyUsage, k)
           THEN /\ timers' = [timers EXCEPT ![k] = @ \cup {reactivateAfter}]
                /\ sinceSuspend' = [sinceSuspend EXCEPT ![k] = 0]
           ELSE UNCHANGED <<timers, sinceSuspend>>

\* response.text() or response.json() rejects, or the payload has no
\* candidate, or its text is empty: thrown from the try block
BodyOutcomes == {"bodyfail", "malformed", "invalid", "empty"}
BodyFails(c, o) ==
  /\ \/ calls[c].stage = "text" /\ o = "bodyfail"
     \/ calls[c].stage = "json"
  /\ Settle(c, keyUsage, EmptyText, Message)
  /\ UNCHANGED <<timers, sinceSuspend>>

\* the payload carries a non-empty text: recordSuccess, return content
Success(c, json) ==
  /\ calls[c].stage = "json"
  /\ Settle(c, recordSuccess(keyUsage, calls[c].key),
            Text(calls[c].id, json), NoError)
  /\ UNCHANGED <<timers, sinceSuspend>>

(* ----------------------------- makeRequest ----------------------------- *)
\* makeRequest(prompt): one key from the selector, recordRequest, then
\* makeRequestWithKey; with no key it throws before any call is issued
makeRequest(c) ==
  /\ calls[c] = NoCall
  /\ \A c2 \in ReqSlots : c2 < c => calls[c2] # NoCall
  /\ requestsMade < MaxRequests
  /\ requestsMade' = requestsMade + 1
  /\ LET keys == getAvailableKeys(keyPool, keyUsage, 1)
         usage == UsageAfterSelect(keyPool, keyUsage, 1)
     IN IF Len(keyPool) = 0 \/ keys = <<>>
        THEN /\ keyUsage' = (IF Len(keyPool) = 0 THEN keyUsage ELSE usage)
             /\ UNCHANGED calls
        ELSE /\ keyUsage' = recordRequest(usage, keys[1])
             /\ calls' = [calls EXCEPT ![c] = NewCall(keys[1], 0)]
  /\ UNCHANGED <<keyPool, timers, sinceSuspend, runs, orchVars, courseVars,
                 delayTimer, otherVars>>

(* ------------------------ makeParallelRequests ------------------------- *)
\* the key of the batch's task at 0-based position index
BatchKey(keys, index) == keys[(index % Len(keys)) + 1]

\* prompts.slice(from, from + size), as the indices of the tasks
BatchSlice(from, size, n) == (from + 1)..Min(from + size, n)

\* the keys the tasks of the batch starting at from run on, in order
BatchKeys(keys, from, size, n) ==
  [x \in 1..(Min(from + size, n) - from) |-> BatchKey(keys, x - 1)]

\* recordRequest for each key of ks, in order
RECURSIVE RecordAll(_, _)
RecordAll(usage, ks) ==
  IF ks = <<>> THEN usage
  ELSE RecordAll(recordRequest(usage, Head(ks)), Tail(ks))

\* one pass of the for loop up to await Promise.all: the batch starting at
\* from is cut and each of its tasks records a request and issues its call.
\* An empty batch settles at once and the loop goes on to its pause.
DispatchBatch(ps, keys, size, from, usage) ==
  LET n == Len(ps)
      slice == BatchSlice(from, size, n)
      ks == BatchKeys(keys, from, size, n)
  IN /\ i' = from
     /\ keyUsage' = RecordAll(usage, ks)
     /\ calls' = [c \in Slots |-> IF c \in slice
                                  THEN NewCall(ks[c - from], ps[c])
                                  ELSE calls[c]]
     /\ attempts' = [j \in TaskSlots |-> IF j \in slice THEN attempts[j] + 1
                                          ELSE attempts[j]]
     /\ batchResults' = [j \in TaskSlots |-> NoResult]
     /\ IF slice = {}
        THEN /\ pc' = "pause"
             /\ pauseTimer' = batchPause
             /\ UNCHANGED <<batches, dispatched>>
        ELSE /\ pc' = "await"
             /\ pauseTimer' = -1
             /\ batches' = batches + 1
             /\ dispatched' = [keys |-> ks, eligible |-> Eligible(keyPool, usage)]

\* makeParallelRequests(prompts) up to its first await, on the tracker usage
makeParallelRequests(ps, usage) ==
  LET m == Len(ps)
      keys == getAvailableKeys(keyPool, usage, m)
      cleaned == UsageAfterSelect(keyPool, usage, m)
      size == Min(Len(keys), m)
  IN /\ prompts' = ps
     /\ availableKeys' = keys
     /\ batchSize' = size
     /\ results' = <<>>
     /\ IF m = 0
        THEN /\ pc' = "done"
             /\ keyUsage' = cleaned
             /\ i' = 0
             /\ attempts' = [j \in TaskSlots |-> 0]
             /\ batches' = 0
             /\ dispatched' = NoDispatch
             /\ UNCHANGED <<calls, batchResults, pauseTimer>>
        ELSE DispatchBatch(ps, keys, size, 0, cleaned)

\* the task lists handed in: m tasks with pairwise distinct ids
TaskList(m) == [j \in 1..m |-> m + 1 - j]

\* a caller hands a task list to makeParallelRequests
Calls(m) ==
  /\ pc = "idle"
  /\ runs < MaxRuns
  /\ runs' = runs + 1
  /\ makeParallelRequests(TaskList(m), keyUsage)
  /\ UNCHANGED <<keyPool, timers, sinceSuspend, requestsMade, courseVars,
                 delayTimer, otherVars>>

\* the pause between two batches is over: i += batchSize and the next pass
PauseEnds ==
  /\ pc = "pause"
  /\ pauseTimer = 0
  /\ DispatchBatch(prompts, availableKeys, batchSize, i + batchSize, keyUsage)
  /\ UNCHANGED <<keyPool, timers, sinceSuspend, requestsMade, runs, prompts,
                 availableKeys, batchSize, results, courseVars, delayTimer,
                 otherVars>>

\* the list returned is taken: the call is over
ResultsTaken ==
  /\ pc' = "idle"
  /\ prompts' = <<>>
  /\ availableKeys' = <<>>
  /\ batchSize' = 0
  /\ i' = 0
  /\ results' = <<>>
  /\ attempts' = [j \in TaskSlots |-> 0]
  /\ batches' = 0
  /\ dispatched' = NoDispatch

\* the caller takes the list returned
Returns ==
  /\ pc = "done"
  /\ ResultsTaken
  /\ UNCHANGED <<trackerVars, calls, requestsMade, runs, batchResults, pauseTimer,
                 courseVars, delayTimer, otherVars>>

(* ----------------------- generateDetailedCourse ------------------------ *)
\* the content of a detailed chapter: null, or the object parsed from text
NullContent == [parsed |-> FALSE, for |-> 0]
Parsed(text) == [parsed |-> TRUE, for |-> text.for]

\* getStatus(): every configured key has its requests cleaned
UsageAfterStatus(pool, usage) ==
  [k \in Keys |-> IF k \in Range(pool)
                  THEN [usage[k] EXCEPT !.requests = CleanRequests(@)]
                  ELSE usage[k]]

\* batchResults.find(r => r.id === id): the first result that carries id
FindFirst(rs, id) ==
  LET hits == {x \in DOMAIN rs : rs[x].id = id}
  IN IF hits = {} THEN NoResult
     ELSE rs[CHOOSE x \in hits : \A y \in hits : x <= y]

\* FindResult reading the list by the start of it, not by id
FindResultHead(rs, id) == IF rs = <<>> THEN NoResult ELSE rs[1]

\* the result generateDetailedCourse takes for the chapter id
FindResult(rs, id) == FindFirst(rs, id)

\* JSON.parse(cleanJsonResponse(result.result)), null when the task failed
\* or its text does not parse
ChapterContent(r) ==
  IF r # NoResult /\ r.error = NoError /\ r.result.json
  THEN Parsed(r.result) ELSE NullContent

\* the chapter lists handed in: n chapters with pairwise distinct ids
ChapterList(n) == [j \in 1..n |-> n + 1 - j]

\* chapters.slice(from, from + size), as chapter ids: the prompt of a
\* chapter carries its id
CoursePrompts(chs, from, size) ==
  [x \in 1..(Min(from + size, Len(chs)) - from) |-> chs[from + x]]

\* generateDetailedCourse(roadmap) up to its first await
CourseStarts(n) ==
  /\ cpc = "idle"
  /\ pc = "idle"
  /\ LET chs == ChapterList(n)
         usage == UsageAfterStatus(keyPool, keyUsage)
         size == Min(courseBatchLimit, activeKeys(keyPool, usage))
     IN /\ chapters' = chs
        /\ courseBatchSize' = size
        /\ courseIndex' = 0
        /\ detailedChapters' = <<>>
        /\ delivered' = <<>>
        /\ IF n = 0
           THEN /\ cpc' = "done"
                /\ keyUsage' = usage
                /\ UNCHANGED <<calls, orchVars>>
           ELSE /\ cpc' = "await"
                /\ makeParallelRequests(CoursePrompts(chs, 0, size), usage)
  /\ UNCHANGED <<keyPool, timers, sinceSuspend, requestsMade, runs, delayTimer,
                 otherVars>>

\* makeParallelRequests has returned: the results of the batch are
\* processed, then the delay or the return
CourseCollects ==
  /\ cpc = "await"
  /\ pc = "done"
  /\ LET batch == CoursePrompts(chapters, courseIndex, courseBatchSize)
     IN /\ detailedChapters' = detailedChapters \o
             [x \in DOMAIN batch |->
                [id |-> batch[x],
                 content |-> ChapterContent(FindResult(results, batch[x]))]]
        /\ delivered' = delivered \o results
  /\ IF courseIndex + courseBatchSize < Len(chapters)
     THEN cpc' = "delay" /\ delayTimer' = courseDelay
     ELSE cpc' = "done" /\ delayTimer' = -1
  /\ ResultsTaken
  /\ UNCHANGED <<trackerVars, calls, requestsMade, runs, batchResults, pauseTimer,
                 chapters, courseBatchSize, courseIndex, otherVars>>

\* the delay between two batches is over: i += batchSize and the next pass
CourseDelayEnds ==
  /\ cpc = "delay"
  /\ delayTimer = 0
  /\ delayTimer' = -1
  /\ cpc' = "await"
  /\ courseIndex' = courseIndex + courseBatchSize
  /\ makeParallelRequests(CoursePrompts(chapters, courseIndex + courseBatchSize,
                                        courseBatchSize), keyUsage)
  /\ UNCHANGED <<keyPool, timers, sinceSuspend, requestsMade, runs, chapters,
                 courseBatchSize, detailedChapters, delivered, otherVars>>

(* ------------------------------- time ---------------------------------- *)
\* Reactivate setting the flag and leaving the counter as it is
ReactivateFlagOnly(k) ==
  /\ 0 \in timers[k]
  /\ timers' = [timers EXCEPT ![k] = @ \ {0}]
  /\ keyUsage' = [keyUsage EXCEPT ![k].isActive = TRUE]
  /\ UNCHANGED <<keyPool, sinceSuspend, calls, requestsMade, runs, orchVars,
                 courseVars, delayTimer, otherVars>>

\* the reactivation timer of recordError fires
Reactivate(k) ==
  /\ 0 \in timers[k]
  /\ timers' = [timers EXCEPT ![k] = @ \ {0}]
  /\ keyUsage' = [keyUsage EXCEPT ![k].isActive = TRUE,
                                  ![k].consecutiveErrors = 0]
  /\ UNCHANGED <<keyPool, sinceSuspend, calls, requestsMade, runs, orchVars,
                 courseVars, delayTimer, otherVars>>

\* the time left of every pending timer
PendingTimers ==
  UNION {timers[k] : k \in Keys}
    \cup {requestTimeout - calls[c].elapsed : c \in {x \in Slots : calls[x].stage = "fetch"}}
    \cup (IF pauseTimer >= 0 THEN {pauseTimer} ELSE {})
    \cup (IF delayTimer >= 0 THEN {delayTimer} ELSE {})

\* the time left before an age reaches its horizon
PendingHorizons ==
  {minInterval - keyUsage[k].lastRequest : k \in Keys}
    \cup UNION {{timeWindow - keyUsage[k].requests[x] : x \in DOMAIN keyUsage[k].requests}
                  : k \in Keys}
    \cup {CallAgeCap - calls[c].elapsed : c \in {x \in Slots : calls[x] # NoCall}}
    \cup {reactivateAfter - sinceSuspend[k] : k \in {x \in Keys : sinceSuspend[x] >= 0}}

\* the time up to the next instant, 0 when none is ahead
NextInstant ==
  LET ahead == {t \in PendingTimers \cup PendingHorizons : t > 0}
  IN IF ahead = {} THEN 0 ELSE CHOOSE t \in ahead : \A u \in ahead : t <= u

\* time passes up to the next instant; no timer is overdue
Tick ==
  /\ 0 \notin PendingTimers
  /\ NextInstant > 0
  /\ LET d == NextInstant
     IN /\ keyUsage' = [k \in Keys |->
             [keyUsage[k] EXCEPT
                !.requests = [x \in DOMAIN @ |-> Min(@[x] + d, timeWindow)],
                !.lastRequest = Min(@ + d, minInterval)]]
        /\ timers' = [k \in Keys |-> {t - d : t \in timers[k]}]
        /\ sinceSuspend' = [k \in Keys |-> IF sinceSuspend[k] < 0 THEN -1
                                           ELSE Min(sinceSuspend[k] + d, reactivateAfter)]
        /\ calls' = [c \in Slots |-> IF calls[c] = NoCall THEN NoCall
                                     ELSE [calls[c] EXCEPT !.elapsed = Min(@ + d, CallAgeCap)]]
        /\ pauseTimer' = IF pauseTimer >= 0 THEN pauseTimer - d ELSE -1
        /\ delayTimer' = IF delayTimer >= 0 THEN delayTimer - d ELSE -1
  /\ UNCHANGED <<keyPool, requestsMade, runs, pc, prompts, availableKeys, batchSize,
                 i, batchResults, results, attempts, batches, dispatched,
                 courseVars, otherVars>>

\* what the remote end and the timers may do to the calls in flight
Dispatcher ==
  \/ \E c \in Slots : FetchFails(c)
  \/ \E c \in Slots : AbortFires(c)
  \/ \E c \in Slots, ok \in BOOLEAN : ResponseArrives(c, ok)
  \/ \E c \in Slots : HttpError(c)
  \/ \E c \in Slots, o \in BodyOutcomes : BodyFails(c, o)
  \/ \E c \in Slots, json \in BOOLEAN : Success(c, json)
  \/ \E k \in Keys : Reactivate(k)
  \/ Tick

\* a caller hands task lists to makeParallelRequests
Next ==
  \/ \E m \in 0..MaxTasks : Calls(m)
  \/ PauseEnds
  \/ Returns
  \/ Dispatcher

Spec == Init /\ [][Next]_vars

\* callers make stand-alone requests, which may overlap
NextRequests ==
  \/ \E c \in ReqSlots : makeRequest(c)
  \/ Dispatcher

SpecRequests == Init /\ [][NextRequests]_vars

\* a key that has been used twice, the first time a whole window ago and
\* the second time just inside the minimum spacing
UsedTwice ==
  [requests |-> <<timeWindow, minInterval - 1>>, lastRequest |-> minInterval - 1,
   consecutiveErrors |-> 0, isActive |-> TRUE]

\* every key is configured and has been in use before the callers make
\* their requests
InitUsed == InitFrom({[p \in 1..NumKeys |-> p]}, {UsedTwice})

SpecRequestsUsed == InitUsed /\ [][NextRequests]_vars

\* a caller hands roadmaps to generateDetailedCourse
NextCourse ==
  \/ \E n \in 0..MaxChapters : CourseStarts(n)
  \/ CourseCollects
  \/ CourseDelayEnds
  \/ PauseEnds
  \/ Dispatcher

SpecCourse == Init /\ [][NextCourse]_vars

(* --------------------- getAvailableKeys on its own --------------------- *)
\* the requests of a key used recent times, a minInterval apart, the last
\* time last milliseconds ago
SampleRequests(recent, last) ==
  [j \in 1..recent |-> Min(last + minInterval * (recent - j), timeWindow)]

\* ages of the last request: just inside and just outside the minimum
\* spacing, and so long ago that the first of maxRequestsPerKey requests has
\* left the window
SampleLast ==
  {minInterval - 1, minInterval,
   timeWindow - minInterval * (maxRequestsPerKey - 1)}

\* tracker states of one key: never used, or used up to the cap or one
\* short of it, with no failure, one short of the threshold or suspended
SampleUsage ==
  {NewUsage} \cup
  {[requests |-> SampleRequests(r, l), lastRequest |-> l,
    consecutiveErrors |-> e, isActive |-> e < maxConsecutiveErrors] :
     r \in {maxRequestsPerKey - 1, maxRequestsPerKey}, l \in SampleLast,
     e \in {0, maxConsecutiveErrors - 1, maxConsecutiveErrors}}

\* a key used once a second of late, one call short of the cap and spaced
NearCap == [requests |-> SampleRequests(maxRequestsPerKey - 1, minInterval),
            lastRequest |-> minInterval, consecutiveErrors |-> 0,
            isActive |-> TRUE]

\* makeParallelRequests on a tracker whose one configured key is near the
\* cap
InitNearCap ==
  /\ InitFrom({<<1>>}, {NewUsage, NearCap})
  /\ keyUsage[1] = NearCap

\* the pause between two batches passes
PauseTick == pc = "pause" /\ Tick

\* a caller hands a task list to makeParallelRequests; every call settles
\* at the instant it is made and time passes during the pauses only
NextNearCap ==
  \/ \E m \in 0..MaxTasks : Calls(m)
  \/ PauseEnds
  \/ Returns
  \/ \E c \in TaskSlots : FetchFails(c)
  \/ \E c \in TaskSlots, ok \in BOOLEAN : ResponseArrives(c, ok)
  \/ \E c \in TaskSlots : HttpError(c)
  \/ \E c \in TaskSlots, o \in BodyOutcomes : BodyFails(c, o)
  \/ \E c \in TaskSlots, json \in BOOLEAN : Success(c, json)
  \/ PauseTick

SpecNearCap == InitNearCap /\ [][NextNearCap]_vars

\* API_KEYS: any list of keys, a key possibly in more than one slot
AnyPool == UNION {[1..n -> Keys] : n \in 0..NumKeys}

\* a tracker that has been in use: any pool, the keys of the pool in any
\* of the sampled states
InitSelect == InitFrom(AnyPool, SampleUsage)

\* getAvailableKeys(count), called on its own
Select(count) ==
  /\ selected = NoSelection
  /\ selected' = [count |-> count,
                  keys |-> getAvailableKeys(keyPool, keyUsage, count),
                  before |-> keyUsage]
  /\ keyUsage' = UsageAfterSelect(keyPool, keyUsage, count)
  /\ UNCHANGED <<keyPool, timers, sinceSuspend, calls, requestsMade, runs,
                 orchVars, courseVars, delayTimer, localStorage, lastCall,
                 opsMade, storeVars, cleanVars, viewVars>>

NextSelect == \E count \in 0..(NumKeys + 1) : Select(count)

SpecSelect == InitSelect /\ [][NextSelect]_vars

(* ------------------------------ userService ------------------------------ *)
Users == 1..NumUsers
RoadmapIds == 1..NumRoadmaps
ChapterIds == 1..NumChapters
Names == 1..NumNames
Stamps == 1..MaxStamp

\* the keys userService keeps in localStorage: `user_${id}`,
\* `history_${id}`, `roadmap_${id}` and `detailed_course_${id}`
StorageKey(prefix, id) == <<prefix, id>>

\* JSON.stringify and JSON.parse of the plain data userService stores
stringify(v) == [json |-> v]
parse(t) == t.json

\* localStorage.getItem(k) is not null
hasItem(ls, k) == k \in DOMAIN ls

\* localStorage.setItem(k, t)
setItem(ls, k, t) ==
  [x \in DOMAIN ls \cup {k} |-> IF x = k THEN t ELSE ls[x]]

\* the history read from `history_${userId}`, [] when the key is absent
LocalHistory(ls, userId) ==
  IF hasItem(ls, StorageKey("history", userId))
  THEN parse(ls[StorageKey("history", userId)]) ELSE <<>>

\* the latest time written into localStorage; Date.now() never goes back
LatestStamp(ls) ==
  LET stamps == {0} \cup
        UNION {{LocalHistory(ls, u)[x].lastAccessedAt :
                  x \in DOMAIN LocalHistory(ls, u)} : u \in Users}
  IN CHOOSE t \in stamps : \A o \in stamps : o <= t

\* an operation of userService has been called and has settled, handing
\* the roadmaps of returned to its caller
Answered(op, userId, ok, threw, roadmapId, returned) ==
  /\ opsMade < MaxOps
  /\ opsMade' = opsMade + 1
  /\ lastCall' = [op |-> op, user |-> userId, failed |-> ~ok, threw |-> threw,
                  roadmapId |-> roadmapId, returned |-> returned]
  /\ UNCHANGED <<trackerVars, calls, requestsMade, runs, orchVars, courseVars,
                 delayTimer, selected, storeVars, cleanVars, viewVars>>

\* an operation of userService that hands no roadmap to its caller has
\* been called and has settled
Called(op, userId, ok, threw) == Answered(op, userId, ok, threw, 0, {})

getOrCreateUser(userId, firstName, ok) ==
  /\ Called("getOrCreateUser", userId, ok, FALSE)
  /\ localStorage' =
       IF ok THEN localStorage
       ELSE setItem(localStorage, StorageKey("user", userId),
                    stringify([clerkId |-> userId, firstName |-> firstName]))

\* the backend's error is thrown again when there is no local profile
updateUser(userId, firstName, ok) ==
  LET k == StorageKey("user", userId)
  IN /\ Called("updateUser", userId, ok, ~ok /\ ~hasItem(localStorage, k))
     /\ localStorage' =
          IF ~ok /\ hasItem(localStorage, k)
          THEN setItem(localStorage, k,
                 stringify([parse(localStorage[k])
                              EXCEPT !.firstName = firstName]))
          ELSE localStorage

getUserHistory(userId, ok) ==
  /\ Called("getUserHistory", userId, ok, FALSE)
  /\ UNCHANGED localStorage

\* the entry addToHistory builds: every chapter of the roadmap, none
\* completed
NewHistory(userId, roadmapId, n, now) ==
  [id |-> now, userId |-> userId, roadmapId |-> roadmapId,
   chapterProgress |->
     [c \in 1..n |-> [chapterId |-> c, completed |-> FALSE]],
   lastAccessedAt |-> now]

addToHistory(userId, roadmapId, n, now, ok) ==
  /\ now >= LatestStamp(localStorage)
  /\ Called("addToHistory", userId, ok, FALSE)
  /\ localStorage' =
       IF ok THEN localStorage
       ELSE setItem(localStorage, StorageKey("history", userId),
              stringify(Append(LocalHistory(localStorage, userId),
                               NewHistory(userId, roadmapId, n, now))))

\* find and findIndex: the index of the first TRUE of hits, 0 when there
\* is none
FirstIndex(hits) ==
  IF \E x \in DOMAIN hits : hits[x]
  THEN CHOOSE x \in DOMAIN hits : hits[x] /\ \A y \in 1..(x - 1) : ~hits[y]
  ELSE 0

\* the chapter's progress set in the entry, appended when the entry has none
WithProgress(item, chapterId, completed, now) ==
  LET progress == item.chapterProgress
      at == FirstIndex([x \in DOMAIN progress |->
                          progress[x].chapterId = chapterId])
  IN [item EXCEPT
        !.chapterProgress =
           IF at # 0
           THEN [@ EXCEPT ![at].completed = completed]
           ELSE Append(@, [chapterId |-> chapterId, completed |-> completed]),
        !.lastAccessedAt = now]

updateChapterProgress(userId, historyId, chapterId, completed, now, ok) ==
  LET k == StorageKey("history", userId)
      history == LocalHistory(localStorage, userId)
      at == FirstIndex([x \in DOMAIN history |-> history[x].id = historyId])
  IN /\ now >= LatestStamp(localStorage)
     /\ Called("updateChapterProgress", userId, ok, FALSE)
     /\ localStorage' =
          IF ~ok /\ hasItem(localStorage, k) /\ at # 0
          THEN setItem(localStorage, k,
                 stringify([history EXCEPT
                    ![at] = WithProgress(@, chapterId, completed, now)]))
          ELSE localStorage

\* the roadmap as the caller of saveRoadmap handed it over; what is stored
\* does not name the user, savedBy is kept to tell whose it is
Roadmap(userId, roadmapId) == [roadmapId |-> roadmapId, savedBy |-> userId]

\* the key is made of the roadmap's id alone
saveRoadmap(userId, roadmapId, ok) ==
  /\ Called("saveRoadmap", userId, ok, FALSE)
  /\ localStorage' =
       IF ok THEN localStorage
       ELSE setItem(localStorage, StorageKey("roadmap", roadmapId),
                    stringify(Roadmap(userId, roadmapId)))

\* the roadmaps kept under the keys that start with `roadmap_`
LocalRoadmaps(ls) ==
  {parse(ls[k]) : k \in {x \in DOMAIN ls : x[1] = "roadmap"}}

\* the fallback of getRoadmap: the item of the key, or null
LocalRoadmap(ls, roadmapId) ==
  IF hasItem(ls, StorageKey("roadmap", roadmapId))
  THEN {parse(ls[StorageKey("roadmap", roadmapId)])} ELSE {}

\* the backend answers with the row it has found (found) or with none, and
\* its answer is returned; when it fails the item of localStorage is
getRoadmap(userId, roadmapId, ok, found) ==
  /\ Answered("getRoadmap", userId, ok, FALSE, roadmapId,
              IF ok
              THEN IF found THEN {Roadmap(userId, roadmapId)} ELSE {}
              ELSE LocalRoadmap(localStorage, roadmapId))
  /\ UNCHANGED localStorage

\* the backend answers with the rows of the user it has found, and its
\* answer is returned; when it fails every roadmap of localStorage is
getUserRoadmaps(userId, ok, found) ==
  /\ Answered("getUserRoadmaps", userId, ok, FALSE, 0,
              IF ok
              THEN {Roadmap(userId, r) : r \in found}
              ELSE LocalRoadmaps(localStorage))
  /\ UNCHANGED localStorage

saveDetailedCourse(userId, roadmapId, ok) ==
  /\ Called("saveDetailedCourse", userId, ok, FALSE)
  /\ localStorage' =
       IF ok THEN localStorage
       ELSE setItem(localStorage, StorageKey("detailed_course", roadmapId),
                    stringify([roadmapId |-> roadmapId, savedBy |-> userId]))

getDetailedCourse(userId, roadmapId, ok) ==
  /\ Called("getDetailedCourse", userId, ok, FALSE)
  /\ UNCHANGED localStorage

getUserDetailedCourses(userId, ok) ==
  /\ Called("getUserDetailedCourses", userId, ok, FALSE)
  /\ UNCHANGED localStorage

\* the browser starts with nothing of userService in localStorage
InitUser ==
  /\ Init
  /\ Len(keyPool) = NumKeys

\* the backend answers (ok) or fails every call as it pleases
NextUser ==
  \E userId \in Users, ok \in BOOLEAN :
    \/ \E firstName \in Names : getOrCreateUser(userId, firstName, ok)
    \/ \E firstName \in Names : updateUser(userId, firstName, ok)
    \/ getUserHistory(userId, ok)
    \/ \E roadmapId \in RoadmapIds, n \in 1..NumChapters, now \in Stamps :
         addToHistory(userId, roadmapId, n, now, ok)
    \/ \E historyId \in Stamps, chapterId \in ChapterIds,
          completed \in BOOLEAN, now \in Stamps :
         updateChapterProgress(userId, historyId, chapterId, completed, now, ok)
    \/ \E roadmapId \in RoadmapIds : saveRoadmap(userId, roadmapId, ok)
    \/ \E roadmapId \in RoadmapIds, found \in BOOLEAN :
         getRoadmap(userId, roadmapId, ok, found)
    \/ \E found \in SUBSET RoadmapIds : getUserRoadmaps(userId, ok, found)
    \/ \E roadmapId \in RoadmapIds : saveDetailedCourse(userId, roadmapId, ok)
    \/ \E roadmapId \in RoadmapIds : getDetailedCourse(userId, roadmapId, ok)
    \/ getUserDetailedCourses(userId, ok)

SpecUser == InitUser /\ [][NextUser]_vars

(* ----------------------------- RoadmapView ----------------------------- *)
Subjects == 1..NumSubjects

\* generateRoadmap of the view, from its start to its first await, in a
\* view whose state is v: the rate limit status is read; with no key
\* available the run ends at once in setError; otherwise generateRoadmap of
\* the service calls makeRequest, which takes a key and issues the call, or
\* with no key throws and the run ends at once in setError
StartRun(v) ==
  LET usage == UsageAfterStatus(keyPool, keyUsage)
      run == v.started + 1
      free == {g \in GenSlots : gens[g] = NoGen}
      g == CHOOSE x \in free : \A y \in free : x <= y
      keys == getAvailableKeys(keyPool, usage, 1)
      cleaned == UsageAfterSelect(keyPool, usage, 1)
  IN /\ v.started < MaxGenerations
     /\ activeKeys(keyPool, usage) = 0 \/ free # {}
     /\ IF activeKeys(keyPool, usage) = 0
        THEN /\ view' = [v EXCEPT !.started = run, !.loading = FALSE, !.error = TRUE]
             /\ keyUsage' = usage
             /\ UNCHANGED <<calls, gens, generated>>
        ELSE IF Len(keyPool) = 0 \/ keys = <<>>
        THEN /\ view' = [v EXCEPT !.started = run, !.loading = FALSE, !.error = TRUE]
             /\ keyUsage' = (IF Len(keyPool) = 0 THEN usage ELSE cleaned)
             /\ generated' = [requests |-> 1, cause |-> "dispatch",
                              outcome |-> "rejected", roadmap |-> FALSE]
             /\ UNCHANGED <<calls, gens>>
        ELSE /\ view' = [v EXCEPT !.started = run, !.loading = TRUE, !.error = FALSE]
             /\ keyUsage' = recordRequest(cleaned, keys[1])
             /\ calls' = [calls EXCEPT ![MaxTasks + g] = NewCall(keys[1], 0)]
             /\ gens' = [gens EXCEPT ![g] = [stage |-> "request",
                                            subject |-> v.subject, run |-> run]]
             /\ UNCHANGED generated
     /\ UNCHANGED <<keyPool, timers, sinceSuspend, requestsMade, runs, orchVars,
                    courseVars, delayTimer, selected, localStorage, lastCall,
                    opsMade, storeVars, cleanVars>>

\* the view is mounted for a subject, by a user or signed out: the effect
\* starts the first run
Mounts(subject, user) ==
  /\ ~view.mounted
  /\ UNCHANGED retriesSince
  /\ StartRun([view EXCEPT !.mounted = TRUE, !.subject = subject, !.user = user])

\* subject or difficulty changes: the effect starts a run
PropsChange(subject) ==
  /\ view.mounted
  /\ subject # view.subject
  /\ UNCHANGED retriesSince
  /\ StartRun([view EXCEPT !.subject = subject])

\* the error screen is rendered with its Try Again button
RetryShown(v) == v.mounted /\ ~v.loading /\ v.error /\ v.retryCount < maxRetries

\* handleRetry's own condition
RetryGuard(v) == v.retryCount < maxRetries

\* Try Again is clicked: handleRetry
handleRetry ==
  /\ RetryShown(view)
  /\ RetryGuard(view)
  /\ retriesSince' = retriesSince + 1
  /\ StartRun([view EXCEPT !.retryCount = @ + 1])

\* the run in slot g is past userService.saveRoadmap, which the backend has
\* answered (ok) or which has fallen back to localStorage
RunSaved(g, ok) ==
  /\ gens[g].stage = "saving"
  /\ gens' = [gens EXCEPT ![g].stage = "history"]
  /\ localStorage' =
       IF ok THEN localStorage
       ELSE setItem(localStorage, StorageKey("roadmap", gens[g].run),
                    stringify([roadmapId |-> gens[g].run, savedBy |-> view.user]))
  /\ UNCHANGED <<trackerVars, calls, requestsMade, runs, orchVars, courseVars,
                 delayTimer, selected, lastCall, opsMade, storeVars, cleanVars, view,
                 generated, retriesSince>>

\* the run in slot g is past userService.addToHistory: setRetryCount(0),
\* then setLoading(false)
RunRecorded(g, now, ok) ==
  /\ gens[g].stage = "history"
  /\ now >= LatestStamp(localStorage)
  /\ gens' = [gens EXCEPT ![g] = NoGen]
  /\ localStorage' =
       IF ok THEN localStorage
       ELSE setItem(localStorage, StorageKey("history", view.user),
              stringify(Append(LocalHistory(localStorage, view.user),
                               NewHistory(view.user, gens[g].run, NumChapters, now))))
  /\ view' = [view EXCEPT !.retryCount = 0, !.loading = FALSE]
  /\ UNCHANGED <<trackerVars, calls, requestsMade, runs, orchVars, courseVars,
                 delayTimer, selected, lastCall, opsMade, storeVars, cleanVars, generated,
                 retriesSince>>

\* the user opens the view, changes what it is asked for and retries, while
\* the calls and the saves of its runs settle; all of it within one instant
\* of the tracker's clock, so that a key used by a run is not spaced for the
\* next ones and no abort timer fires
NextView ==
  \/ \E subject \in Subjects, user \in {SignedOut} \cup Users : Mounts(subject, user)
  \/ \E subject \in Subjects : PropsChange(subject)
  \/ handleRetry
  \/ \E g \in GenSlots, ok \in BOOLEAN : RunSaved(g, ok)
  \/ \E g \in GenSlots, now \in Stamps, ok \in BOOLEAN : RunRecorded(g, now, ok)
  \/ \E c \in ReqSlots : FetchFails(c)
  \/ \E c \in ReqSlots, ok \in BOOLEAN : ResponseArrives(c, ok)
  \/ \E c \in ReqSlots : HttpError(c)
  \/ \E c \in ReqSlots, o \in BodyOutcomes : BodyFails(c, o)
  \/ \E c \in ReqSlots, json \in BOOLEAN : Success(c, json)

SpecView == Init /\ [][NextView]_vars

(* --------------------------- table roadmaps ---------------------------- *)
\* user_id has no NOT NULL constraint: it holds the id of a user or NULL
Null == 0
UserIds == Users \cup {Null}

\* the roles a statement runs as: a signed-in user, to whom the policies
\* apply, or the service role, which bypasses row level security
Roles == {"authenticated", "service_role"}

\* idx_roadmaps_user_roadmap: two rows collide in the unique index when
\* their (user_id, roadmap_id) are equal; NULL is equal to nothing
SameIndexKey(a, b) ==
  /\ a.user_id # Null
  /\ b.user_id # Null
  /\ a.user_id = b.user_id
  /\ a.roadmap_id = b.roadmap_id

\* policy "Users can insert own roadmaps", for the signed-in user me
PassesInsertPolicy(role, me, user_id) ==
  role = "authenticated" => user_id = me

\* INSERT INTO roadmaps runs in transaction t: the row fails the policy or
\* collides with a committed row and the statement is rejected, or it
\* enters the index.  While a colliding row of another transaction is
\* pending the statement waits.
InsertBegins(t, role, me, user_id, roadmap_id) ==
  LET row == [state |-> "pending", role |-> role, user_id |-> user_id,
              roadmap_id |-> roadmap_id]
  IN /\ inserts[t].state = "idle"
     /\ \A t2 \in Txns : t2 < t => inserts[t2].state # "idle"
     /\ \A t2 \in Txns : inserts[t2].state = "pending"
                           => ~SameIndexKey(inserts[t2], row)
     /\ inserts' = [inserts EXCEPT ![t] =
          IF PassesInsertPolicy(role, me, user_id)
               /\ \A r \in roadmapRows : ~SameIndexKey(r, row)
          THEN row ELSE [row EXCEPT !.state = "rejected"]]
     /\ UNCHANGED <<trackerVars, calls, requestsMade, runs, orchVars, courseVars,
                    delayTimer, selected, localStorage, lastCall, opsMade,
                    roadmapRows, viewVars, cleanVars>>

\* the transaction commits: its row is in the table
InsertCommits(t) ==
  /\ inserts[t].state = "pending"
  /\ inserts' = [inserts EXCEPT ![t].state = "committed"]
  /\ roadmapRows' = roadmapRows \cup
       {[id |-> t, user_id |-> inserts[t].user_id,
         roadmap_id |-> inserts[t].roadmap_id]}
  /\ UNCHANGED <<trackerVars, calls, requestsMade, runs, orchVars, courseVars,
                 delayTimer, selected, localStorage, lastCall, opsMade, viewVars, cleanVars>>

\* the transaction rolls back: its row leaves the index
InsertRollsBack(t) ==
  /\ inserts[t].state = "pending"
  /\ inserts' = [inserts EXCEPT ![t].state = "rolledback"]
  /\ UNCHANGED <<trackerVars, calls, requestsMade, runs, orchVars, courseVars,
                 delayTimer, selected, localStorage, lastCall, opsMade,
                 roadmapRows, viewVars, cleanVars>>

\* clients insert rows, their transactions overlapping as they please
NextStore ==
  \/ \E t \in Txns, role \in Roles, me \in Users, user_id \in UserIds,
        roadmap_id \in RoadmapIds :
       InsertBegins(t, role, me, user_id, roadmap_id)
  \/ \E t \in Txns : InsertCommits(t)
  \/ \E t \in Txns : InsertRollsBack(t)

SpecStore == Init /\ [][NextStore]_vars

(* -------------------------- cleanJsonResponse --------------------------- *)
\* A text is the sequence of its characters; a character is the string
\* that holds it, the backtick a string that names it.
Cat(parts) == parts[1] \o parts[2] \o parts[3] \o parts[4] \o parts[5]

Backtick == "backtick"
Backticks == <<Backtick, Backtick, Backtick>>
JsonTag == <<"j", "s", "o", "n">>
NewLine == "\n"
Quote == "\""
Whitespace == {" ", NewLine}

\* whether t stands in s at position p
StandsAt(s, p, t) ==
  /\ p + Len(t) - 1 <= Len(s)
  /\ \A x \in 1..Len(t) : s[p + x - 1] = t[x]

\* s.replace(/t\n?/g, '') from position p on: every match of t, and the
\* line feed that follows it if any, is dropped, the matches being taken
\* from the left and never overlapping
RECURSIVE DropAll(_, _, _)
DropAll(s, p, t) ==
  IF p > Len(s) THEN <<>>
  ELSE IF StandsAt(s, p, t)
       THEN IF p + Len(t) <= Len(s) /\ s[p + Len(t)] = NewLine
            THEN DropAll(s, p + Len(t) + 1, t)
            ELSE DropAll(s, p + Len(t), t)
       ELSE <<s[p]>> \o DropAll(s, p + 1, t)

\* String.prototype.trim
RECURSIVE trim(_)
trim(s) ==
  IF s = <<>> THEN s
  ELSE IF s[1] \in Whitespace THEN trim(Tail(s))
  ELSE IF s[Len(s)] \in Whitespace THEN trim(SubSeq(s, 1, Len(s) - 1))
  ELSE s

\* indexOf and lastIndexOf of a character, counted from 1; 0 stands for -1
indexOf(s, c) ==
  IF \E x \in DOMAIN s : s[x] = c
  THEN CHOOSE x \in DOMAIN s : s[x] = c /\ \A y \in 1..(x - 1) : s[y] # c
  ELSE 0

lastIndexOf(s, c) ==
  IF \E x \in DOMAIN s : s[x] = c
  THEN CHOOSE x \in DOMAIN s : s[x] = c /\ \A y \in (x + 1)..Len(s) : s[y] # c
  ELSE 0

\* cleanJsonResponse: the fences are dropped, the rest is trimmed and, when
\* a closing brace follows an opening one, cut down to the text from the
\* first opening to the last closing brace
cleanJsonResponse(response) ==
  LET cleaned == trim(DropAll(DropAll(response, 1, Backticks \o JsonTag), 1,
                              Backticks))
      firstBrace == indexOf(cleaned, "{")
      lastBrace == lastIndexOf(cleaned, "}")
  IN trim(IF firstBrace # 0 /\ lastBrace # 0 /\ lastBrace > firstBrace
          THEN SubSeq(cleaned, firstBrace, lastBrace)
          ELSE cleaned)

\* JSON.parse, as far as it accepts or throws, on texts made of the
\* characters { } [ ] " : 1 j s o n a, the backtick, the space and the line feed: a value
\* is an object of at most one member, an array of at most one element, a
\* string or a number.  Each operator yields the position behind what it
\* has read from position p on, 0 when it cannot read it.
RECURSIVE SkipWhitespace(_, _)
SkipWhitespace(s, p) ==
  IF p <= Len(s) /\ s[p] \in Whitespace THEN SkipWhitespace(s, p + 1) ELSE p

RECURSIVE ReadNumber(_, _)
ReadNumber(s, p) ==
  IF p <= Len(s) /\ s[p] = "1" THEN ReadNumber(s, p + 1) ELSE p

\* a string ends at the next quote; it holds no line feed
ReadString(s, p) ==
  LET ends == {q \in (p + 1)..Len(s) : s[q] = Quote}
      q == CHOOSE x \in ends : \A y \in ends : x <= y
  IN IF ends = {} \/ \E x \in (p + 1)..(q - 1) : s[x] = NewLine
     THEN 0 ELSE q + 1

RECURSIVE ReadValue(_, _)
ReadValue(s, p) ==
  IF p > Len(s) THEN 0
  ELSE IF s[p] = "1" THEN ReadNumber(s, p)
  ELSE IF s[p] = Quote THEN ReadString(s, p)
  ELSE IF s[p] = "["
       THEN LET q == SkipWhitespace(s, p + 1)
                v == ReadValue(s, q)
                e == SkipWhitespace(s, v)
            IN IF q <= Len(s) /\ s[q] = "]" THEN q + 1
               ELSE IF v # 0 /\ e <= Len(s) /\ s[e] = "]" THEN e + 1
               ELSE 0
  ELSE IF s[p] = "{"
       THEN LET q == SkipWhitespace(s, p + 1)
                k == IF q <= Len(s) /\ s[q] = Quote THEN ReadString(s, q) ELSE 0
                c == SkipWhitespace(s, k)
                v == IF k # 0 /\ c <= Len(s) /\ s[c] = ":"
                     THEN ReadValue(s, SkipWhitespace(s, c + 1)) ELSE 0
                e == SkipWhitespace(s, v)
            IN IF q <= Len(s) /\ s[q] = "}" THEN q + 1
               ELSE IF v # 0 /\ e <= Len(s) /\ s[e] = "}" THEN e + 1
               ELSE 0
  ELSE 0

\* whether JSON.parse(s) returns
Parses(s) ==
  LET v == ReadValue(s, SkipWhitespace(s, 1))
  IN v # 0 /\ SkipWhitespace(s, v) > Len(s)

\* the texts a response is made of.  Around the body: nothing, a word, a
\* word with braces, a backtick
Texts ==
  {<<>>, <<"a">>, <<"a", " ">>, <<NewLine>>, <<"a", NewLine>>,
   <<"{", "a", "}">>, <<Backtick>>}

\* the fence that opens, with or without the tag and the line feed, or none
Openings ==
  {<<>>, Backticks \o JsonTag \o <<NewLine>>, Backticks \o JsonTag,
   Backticks \o <<NewLine>>, Backticks}

\* the fence that closes, or none
Closings == {<<>>, <<NewLine>> \o Backticks, Backticks, Backticks \o <<NewLine>>}

\* JSON objects: empty, with a member, nested, with a brace or a fence in
\* a string
Objects ==
  {<<"{", "}">>,
   <<"{", Quote, "a", Quote, ":", "1", "}">>,
   <<"{", NewLine, Quote, "a", Quote, ":", " ", "1", NewLine, "}">>,
   <<"{", Quote, "a", Quote, ":", "{", "}", "}">>,
   <<"{", Quote, "a", Quote, ":", Quote, "}", Quote, "}">>,
   <<"{", Quote, "a", Quote, ":", Quote, Backtick, Backtick, Backtick, Quote, "}">>}

\* what else the model answers with: nothing, a word, a number, a string,
\* an array, half an object
Bodies ==
  Objects \cup
  {<<>>, <<"a">>, <<"1">>, <<Quote, "a", Quote>>, <<"[", "1", "]">>,
   <<"{", Quote, "a", Quote, ":">>, <<"}", "{">>}

Responses == {<<b, o, x, c, a>> : b \in Texts, o \in Openings, x \in Bodies,
                                  c \in Closings, a \in Texts}

\* a response text has arrived
InitClean ==
  InitWith(PoolConfigs, {NewUsage},
           {[parts |-> r, state |-> "raw", cleaned |-> <<>>] : r \in Responses})

\* cleanJsonResponse(response)
Cleans ==
  /\ cleaning.state = "raw"
  /\ cleaning' = [cleaning EXCEPT !.state = "cleaned",
                                  !.cleaned = cleanJsonResponse(Cat(cleaning.parts))]
  /\ UNCHANGED <<trackerVars, calls, requestsMade, runs, orchVars, courseVars,
                 delayTimer, selected, localStorage, lastCall, opsMade, storeVars,
                 viewVars>>

NextClean == Cleans

SpecClean == InitClean /\ [][NextClean]_vars

\* timers fire and every issued call settles: the event loop runs whatever
\* step is pending
FairSpec == Spec /\ WF_vars(Next)

\* the same for generateDetailedCourse
FairCourse == SpecCourse /\ WF_vars(NextCourse)

(* ------------------------------ claims --------------------------------- *)
Running == pc \in {"await", "pause"}
Ceil(m, b) == (m + b - 1) \div b

\* C1: once called, makeParallelRequests eventually returns, having
\* attempted each task exactly once
C1_Terminates ==
  Running ~> (pc = "done" /\ \A j \in 1..Len(prompts) : attempts[j] = 1)

\* C2: every key a batch is dispatched on was eligible, by a fresh
\* selection, at the moment the batch was dispatched
C2_FreshSelection == Range(dispatched.keys) \subseteq dispatched.eligible

\* C3: a key suspended by recordError is not eligible for selection until
\* the full cool-down has elapsed since that suspension
C3_CoolDown ==
  \A k \in Range(keyPool) :
    (sinceSuspend[k] >= 0 /\ sinceSuspend[k] < reactivateAfter)
      => k \notin Eligible(keyPool, keyUsage)

\* C4: every non-success outcome of makeRequestWithKey (network failure,
\* abort, non-2xx status, malformed or empty payload) increments the
\* consecutive-failure counter of its key, and only a success clears it
C4_FailureRecorded ==
  [][\A c \in Slots :
       /\ (\/ FetchFails(c)
           \/ AbortFires(c)
           \/ HttpError(c)
           \/ \E o \in BodyOutcomes : BodyFails(c, o))
            => keyUsage'[calls[c].key].consecutiveErrors
                 = keyUsage[calls[c].key].consecutiveErrors + 1
       /\ (\E json \in BOOLEAN : Success(c, json))
            => keyUsage'[calls[c].key].consecutiveErrors = 0]_vars

\* C6: makeParallelRequests makes exactly one dispatch attempt per task, in
\* ceil(m / min(k, available)) batches
C6_AttemptsAndBatches ==
  Running ~>
    (/\ pc = "done"
     /\ \A j \in 1..Len(prompts) : attempts[j] = 1
     /\ Len(availableKeys) > 0
     /\ batches = Ceil(Len(prompts), Min(Len(keyPool), Len(availableKeys))))

\* C7: no call of makeRequestWithKey stays in flight longer than the timeout
C7_BoundedByTimeout ==
  \A c \in Slots : calls[c] # NoCall => calls[c].elapsed <= requestTimeout

\* C10: the list makeParallelRequests returns has one entry per task, in
\* input order, each with its task's id and either a non-empty result and
\* no error or an empty result and an error message
C10_OneEntryPerTask ==
  pc = "done" =>
    /\ Len(results) = Len(prompts)
    /\ \A j \in 1..Len(prompts) :
         /\ results[j].id = prompts[j]
         /\ \/ results[j].result.len > 0 /\ results[j].error = NoError
            \/ results[j].result = EmptyText /\ results[j].error = Message

\* C10 witness: a list returned after more than one batch in which one task
\* failed and another succeeded
C10_Witness ==
  /\ pc = "done"
  /\ batches >= 2
  /\ \E j \in 1..Len(results) : results[j].error = Message
  /\ \E j \in 1..Len(results) : results[j].error = NoError

InWindow(u) ==
  Cardinality({y \in DOMAIN u.requests : u.requests[y] < timeWindow})

\* the configured keys that were eligible when the latest selection was made
WasEligible ==
  {k \in Range(keyPool) :
     LET u == selected.before[k]
     IN /\ u.isActive
        /\ u.consecutiveErrors < maxConsecutiveErrors
        /\ InWindow(u) < maxRequestsPerKey
        /\ u.lastRequest >= minInterval}

\* the last call of u was made before the last call of w; a key never used
\* has lastRequest 0, before every call
UsedBefore(u, w) ==
  IF w = NewUsage THEN FALSE
  ELSE IF u = NewUsage THEN TRUE
  ELSE u.lastRequest > w.lastRequest

\* C5: getAvailableKeys(n) returns at most n keys, none of which was, at
\* the time of the call, inactive, at or above the failure threshold, at or
\* above the cap of calls in the trailing window, or used less than the
\* minimum spacing ago
C5_OnlyEligibleKeys ==
  selected.count >= 0 =>
    /\ Len(selected.keys) <= selected.count
    /\ \A x \in DOMAIN selected.keys :
         LET u == selected.before[selected.keys[x]]
         IN /\ u.isActive
            /\ u.consecutiveErrors < maxConsecutiveErrors
            /\ Cardinality({y \in DOMAIN u.requests : u.requests[y] < timeWindow})
                 < maxRequestsPerKey
            /\ u.lastRequest >= minInterval

\* C5 witness: a selection that returned a key and left out a configured
\* key that was active, spaced and at the cap, and asked for more
C5_Witness ==
  /\ selected.count > Len(selected.keys)
  /\ Len(selected.keys) > 0
  /\ \E k \in Range(keyPool) \ Range(selected.keys) :
       LET u == selected.before[k]
       IN /\ u.isActive
          /\ u.lastRequest >= minInterval
          /\ Cardinality({y \in DOMAIN u.requests : u.requests[y] < timeWindow})
               = maxRequestsPerKey

\* C8: no userService operation whose backend call failed surfaces the
\* error to its caller, whatever localStorage holds
C8_BackendFailureNeverSurfaces == lastCall.failed => ~lastCall.threw

\* C11: the orchestrator goes from a batch to its pause only when no call
\* of the batch is in flight any more, and a batch after the first is
\* dispatched only from that pause, once the whole pause has passed and with
\* no call of the earlier batch in flight
C11_BatchBarrier ==
  [][/\ (pc = "await" /\ pc' = "pause")
          => /\ pauseTimer' = batchPause
             /\ \A c \in TaskSlots : calls'[c] = NoCall
     /\ (batches > 0 /\ batches' > batches)
          => /\ pc = "pause"
             /\ pauseTimer = 0
             /\ \A c \in TaskSlots : calls[c] = NoCall]_vars

\* C11 witness: a later batch is in flight after an earlier batch of more
\* than one call, one of them failed, has settled
C11_Witness ==
  /\ pc = "await"
  /\ batches >= 2
  /\ \E c \in TaskSlots : calls[c] # NoCall
  /\ Len(results) >= 2
  /\ \E j \in 1..Len(results) : results[j].error = Message

\* C13: getAvailableKeys(n) leaves the usage record of every key as it
\* was: its list of request times, its last request, its failure counter
\* and its active flag
C13_SelectionHasNoSideEffects ==
  selected.count >= 0 => keyUsage = selected.before

\* C14: no eligible key left out of the result of getAvailableKeys(n) has
\* strictly fewer calls in the window than a key returned, and when n or
\* more keys are eligible exactly n are returned
C14_FewestCallsFirst ==
  selected.count >= 0 =>
    /\ \A k \in WasEligible \ Range(selected.keys) :
         \A r \in Range(selected.keys) :
           ~(InWindow(selected.before[k]) < InWindow(selected.before[r]))
    /\ Cardinality(WasEligible) >= selected.count
         => Len(selected.keys) = selected.count

\* C14 witness: one key asked for, two eligible with different numbers of
\* calls in the window, the one configured first having more
C14_Witness ==
  /\ selected.count = 1
  /\ Len(selected.keys) = 1
  /\ Len(keyPool) >= 2
  /\ \E k \in WasEligible \ Range(selected.keys) :
       /\ k = keyPool[1]
       /\ InWindow(selected.before[k]) > InWindow(selected.before[selected.keys[1]])

\* C20: no eligible key left out of the result of getAvailableKeys(n) was
\* last used before a key that is returned
C20_LeastRecentlyUsed ==
  selected.count >= 0 =>
    \A k \in WasEligible \ Range(selected.keys) :
      \A r \in Range(selected.keys) :
        ~UsedBefore(selected.before[k], selected.before[r])

\* C15: a key suspended by recordError eventually is active again with its
\* failure counter at 0, whether or not a call is made on it meanwhile
C15_Reinstated ==
  \A k \in Keys :
    (~keyUsage[k].isActive)
      ~> (keyUsage[k].isActive /\ keyUsage[k].consecutiveErrors = 0)

\* C15 witness: the cool-down of a suspended key has elapsed, its timer has
\* fired, and the key is active with its counter at 0
C15_Witness ==
  \E k \in Keys :
    /\ sinceSuspend[k] = reactivateAfter
    /\ timers[k] = {}
    /\ keyUsage[k].isActive
    /\ keyUsage[k].consecutiveErrors = 0

\* C16: when the selector returns no key, makeRequest issues no call and
\* leaves the usage record of every key as it was
C16_EmptySelectionChangesNothing ==
  [][\A c \in ReqSlots :
       (makeRequest(c) /\ getAvailableKeys(keyPool, keyUsage, 1) = <<>>)
         => (calls' = calls /\ keyUsage' = keyUsage)]_vars

\* C17: the table roadmaps never holds two rows with the same
\* (user_id, roadmap_id), whatever the user column holds
C17_UniquePair ==
  \A a \in roadmapRows : \A b \in roadmapRows :
    (a.user_id = b.user_id /\ a.roadmap_id = b.roadmap_id) => a.id = b.id

\* C18: in the local fallback updateChapterProgress leaves the number of
\* history entries of every user, the number of progress entries of every
\* history entry, every progress entry but that of the named chapter in the
\* named history entry, and every other history entry as they were
C18_OnlyNamedChapter ==
  [][\A userId \in Users, historyId \in Stamps, chapterId \in ChapterIds,
        completed \in BOOLEAN, now \in Stamps :
       updateChapterProgress(userId, historyId, chapterId, completed, now, FALSE)
         => \A u \in Users :
              LET old == LocalHistory(localStorage, u)
                  new == LocalHistory(localStorage', u)
              IN /\ Len(new) = Len(old)
                 /\ \A x \in DOMAIN old :
                      /\ Len(new[x].chapterProgress) = Len(old[x].chapterProgress)
                      /\ \A y \in DOMAIN old[x].chapterProgress :
                           (\/ u # userId
                            \/ old[x].id # historyId
                            \/ old[x].chapterProgress[y].chapterId # chapterId)
                             => new[x].chapterProgress[y] = old[x].chapterProgress[y]
                      /\ (u # userId \/ old[x].id # historyId)
                           => new[x] = old[x]]_vars

C19_RetriesBounded == retriesSince <= maxRetries

\* C30: the roadmap displayed is never replaced by the result of a run
\* started before the run whose result is displayed
C30_LatestRunWins == [][view'.roadmap.run >= view.roadmap.run]_vars

\* C26: a key's active flag is false exactly when its count of consecutive
\* errors has reached maxConsecutiveErrors
C26_FlagFollowsCounter ==
  \A k \in Keys :
    ~keyUsage[k].isActive <=> keyUsage[k].consecutiveErrors >= maxConsecutiveErrors

\* C26 witness: a call that was in flight when its key was suspended has
\* failed in its turn, and the timer has not yet fired: the key is suspended
\* with its counter above the threshold
C26_Witness ==
  \E k \in Keys :
    /\ ~keyUsage[k].isActive
    /\ keyUsage[k].consecutiveErrors > maxConsecutiveErrors
    /\ timers[k] # {}

\* C27: the keys returned by getAvailableKeys(n) are pairwise distinct
C27_DistinctKeys ==
  selected.count >= 0 =>
    \A x, y \in DOMAIN selected.keys :
      selected.keys[x] = selected.keys[y] => x = y

\* C28: getRoadmap(u, id) returns the roadmap that saveRoadmap has kept in
\* localStorage for u under id, the backend having failed during the save
C28_SavedIsRead ==
  \A u \in Users, id \in RoadmapIds :
    (/\ lastCall.op = "getRoadmap"
     /\ lastCall.user = u
     /\ lastCall.roadmapId = id
     /\ LocalRoadmap(localStorage, id) = {Roadmap(u, id)})
      => lastCall.returned = {Roadmap(u, id)}

\* C29: with the backend failing, getRoadmap(u, id) and getUserRoadmaps(u)
\* return no roadmap saved by a user other than u
C29_OwnRoadmapsOnly ==
  (lastCall.op \in {"getRoadmap", "getUserRoadmaps"} /\ lastCall.failed)
    => \A x \in lastCall.returned : x.savedBy = lastCall.user

\* C21: of a response that holds no brace cleanJsonResponse returns the
\* response trimmed, and JSON.parse of what it returns throws
C21_NoBraceIsTrimmedOnly ==
  (/\ cleaning.state = "cleaned"
   /\ \A x \in DOMAIN Cat(cleaning.parts) : Cat(cleaning.parts)[x] \notin {"{", "}"})
    => /\ cleaning.cleaned = trim(Cat(cleaning.parts))
       /\ ~Parses(cleaning.cleaned)

\* C22: of an object between an opening and a closing fence, with or without
\* text before and after, cleanJsonResponse returns the object, and of the
\* object it returns the object
C22_FencedObjectIsExtracted ==
  (/\ cleaning.state = "cleaned"
   /\ cleaning.parts[2] # <<>>
   /\ cleaning.parts[4] # <<>>
   /\ cleaning.parts[3] \in Objects)
    => /\ cleaning.cleaned = cleaning.parts[3]
       /\ cleanJsonResponse(cleaning.cleaned) = cleaning.cleaned

\* C23: no key has more than maxRequestsPerKey requests recorded within
\* the trailing window
C23_QuotaRespected ==
  \A k \in Keys : InWindow(keyUsage[k]) <= maxRequestsPerKey

\* C24: two requests recorded one after the other for a key are at least
\* minInterval apart
C24_MinimumSpacing ==
  \A k \in Keys :
    \A x \in 1..(Len(keyUsage[k].requests) - 1) :
      keyUsage[k].requests[x] < timeWindow
        => keyUsage[k].requests[x] - keyUsage[k].requests[x + 1] >= minInterval

\* C25: generateDetailedCourse, called on a roadmap of one chapter or more,
\* eventually returns
C25_CourseTerminates ==
  (cpc \in {"await", "delay"} /\ Len(chapters) >= 1) ~> (cpc = "done")

====
